---- MODULE Spec2Model ----
(***************************************************************************)
(* A model of the ResNet run loop                                          *)
(* (mlperf_resnet/resnet_run_loop.py): the epoch-chunked train/evaluate    *)
(* driver resnet_main, the batch partitioning helper                       *)
(* per_device_batch_size, the training operation and optimizer built by    *)
(* resnet_model_fn, the input pipeline process_record_dataset and the two  *)
(* learning-rate schedules of learning_rate_with_decay; of the export      *)
(* script wide_deep_graph_to_saved_model.py; and of the helper             *)
(* set_env_var as the unit tests use it.                                   *)
(*                                                                         *)
(* Specifications:                                                         *)
(*   Spec        the driver resnet_main, one step per action               *)
(*   FairSpec    Spec with weak fairness (the driver's calls are blocking  *)
(*               and single-threaded: an enabled step is taken)            *)
(*   SpecBatch   per_device_batch_size applied to drawn arguments          *)
(*   SpecModelFn the estimator's use of resnet_model_fn in each mode       *)
(*   SpecLR      learning_rate_with_decay and the schedule it returns,     *)
(*               evaluated at successive global steps                      *)
(*   SpecPipeline process_record_dataset, one transformation per action    *)
(*   SpecExport  main of the export script, one statement group per action *)
(*   SpecEnv     set_env_var, assignments and deletions on os.environ      *)
(***************************************************************************)
EXTENDS Integers, Sequences, FiniteSets, TLC

VARIABLES
    flags,        \* the parsed command-line flags (read-only after Init)
    pc,           \* the driver's position: Idle, TrainingChunk, Evaluating, Done, Raised
    i,            \* the loop variable of resnet_main's for loop
    steps_left,   \* training steps the running estimator.train call still has to run
    global_step,  \* the framework's global step variable
    calls,        \* the estimator calls made so far, in order
    error,        \* the exception that ended the driver, "" while none
    mode,         \* the mode of the graph the estimator built last
    train_op,     \* the training operation of that graph
    batches,      \* batches processed so far under the graph built last
    arg,          \* SpecBatch: the arguments of per_device_batch_size
    res,          \* SpecBatch: what the call did
    lr_cfg,       \* SpecLR: the arguments of learning_rate_with_decay and the run's flags
    lr_pc,        \* SpecLR: "start", "ready" (a schedule was returned) or "raised"
    lr_step,      \* SpecLR: the global step the schedule was evaluated at last, -1 before
    lr_val,       \* SpecLR: the schedule's value at lr_step
    lr_prev,      \* SpecLR: the schedule's value at lr_step - 1
    optimizer,    \* the optimizer of the graph built last, innermost wrapper first
    hvd,          \* the horovod installation found at import: installed, size, rank
    is_mpi,       \* the module global is_mpi (lines 40-47), set once at import
    node_num,     \* the node count get_node_and_core_number reports (line 528)
    ds_args,      \* SpecPipeline: the arguments of process_record_dataset
    ds_pc,        \* SpecPipeline: the statement process_record_dataset is at
    dataset,      \* SpecPipeline: the transformations applied to the dataset, in order
    argv,         \* SpecExport: sys.argv of the export script
    FLAGS,        \* SpecExport: the flags parsed from argv
    files,        \* SpecExport: the file system the script runs on
    ex_pc,        \* SpecExport: the statement main is at
    stdout,       \* SpecExport: the messages printed so far
    exit_code,    \* SpecExport: the argument of sys.exit, NotExited while running
    imported,     \* SpecExport: whether the graph was imported into the session
    saved,        \* SpecExport: the directories SavedModelBuilder.save wrote
    environ,      \* SpecEnv: os.environ
    env_call      \* SpecEnv: the last set_env_var call and the variable's value before it

driver_vars == <<flags, pc, i, steps_left, global_step, calls, error, mode, train_op, batches,
                 optimizer>>
batch_vars == <<arg, res>>
lr_vars == <<lr_cfg, lr_pc, lr_step, lr_val, lr_prev>>
world_vars == <<hvd, is_mpi, node_num>>
pipe_vars == <<ds_args, ds_pc, dataset>>
export_vars == <<argv, FLAGS, files, ex_pc, stdout, exit_code, imported, saved>>
env_vars == <<environ, env_call>>
vars == <<flags, pc, i, steps_left, global_step, calls, error, mode, train_op, batches,
          arg, res, lr_cfg, lr_pc, lr_step, lr_val, lr_prev,
          optimizer, hvd, is_mpi, node_num, ds_args, ds_pc, dataset,
          argv, FLAGS, files, ex_pc, stdout, exit_code, imported, saved,
          environ, env_call>>

----------------------------------------------------------------------------
(* Bounds of the model.                                                    *)

MaxTrainEpochs == 10
MaxEpochsBetweenEvals == 3
MaxGpus == 3
MaxBatch == 24
MaxDevices == 6
MaxModelBatches == 2
MaxModelCalls == 3
MaxEpochBatches == 2
MaxLrStep == 30
MaxWorkers == 3
MaxNodes == 2
MaxArgs == 3

(* Program constants.                                                      *)

NUM_IMAGES_train == 1281167

_NUM_IMAGES == [train |-> NUM_IMAGES_train, validation |-> 50000]

----------------------------------------------------------------------------
(* per_device_batch_size (lines 437-465).  A call either returns a value   *)
(* or raises; both outcomes are one record.                                *)

Return(v) == [kind |-> "return", value |-> v, error |-> ""]
Raise(e) == [kind |-> "raise", value |-> 0, error |-> e]

(* int(a / b) of Python 3 for a >= 0, b > 0: the true quotient truncated   *)
(* (exact while the operands are below 2^53).                              *)
IntOfQuotient(a, b) == a \div b

PerDeviceNoCheck(batch_size, num_gpus) ==
    IF num_gpus <= 1 THEN Return(batch_size)
    ELSE Return(IntOfQuotient(batch_size, num_gpus))

PerDeviceNoDivide(batch_size, num_gpus) ==
    IF num_gpus <= 1 THEN Return(batch_size)
    ELSE IF batch_size % num_gpus # 0 THEN Raise("ValueError")
    ELSE Return(batch_size)

per_device_batch_size(batch_size, num_gpus) ==
    IF num_gpus <= 1 THEN Return(batch_size)
    ELSE LET remainder == batch_size % num_gpus IN
         IF remainder # 0 THEN Raise("ValueError")
         ELSE Return(IntOfQuotient(batch_size, num_gpus))

----------------------------------------------------------------------------
(* resnet_model_fn (lines 238-434): the part that decides the training     *)
(* operation of the graph.  A training operation is the optimizer call     *)
(* that made it and whether that call was handed the global step; the      *)
(* framework's optimizer adds one to a global step it was handed each      *)
(* time the operation runs.                                                *)

Modes == {"TRAIN", "EVALUATE", "PREDICT"}
LossScales == {1, 128, 1024}

NoTrainOp == [op |-> "None", global_step |-> FALSE]

ScaledBranchDropsStep(m, loss_scale) ==
    IF m = "PREDICT" THEN NoTrainOp
    ELSE IF m = "TRAIN"
         THEN IF loss_scale # 1
              THEN [op |-> "apply_gradients", global_step |-> FALSE]
              ELSE [op |-> "minimize", global_step |-> TRUE]
         ELSE NoTrainOp

resnet_model_fn(m, loss_scale) ==
    IF m = "PREDICT" THEN NoTrainOp                              \* lines 314-321
    ELSE IF m = "TRAIN"                                          \* line 358
         THEN IF loss_scale # 1                                  \* line 392
              THEN [op |-> "apply_gradients", global_step |-> TRUE]   \* line 402
              ELSE [op |-> "minimize", global_step |-> TRUE]          \* line 404
         ELSE NoTrainOp                                          \* line 411

(* One run of the graph on one batch: the global step after it.            *)
SessionRun(op, gs) == IF op.global_step THEN gs + 1 ELSE gs

(* The optimizer resnet_model_fn assembles in TRAIN mode (lines 375-390),  *)
(* innermost first; the other modes build none.  `if is_mpi:` is Python    *)
(* truth of an integer: any value but 0.                                   *)
NoOptimizer == <<>>

WrapsAboveOneWorker(m, enable_lars, mpi) ==
    IF m # "TRAIN" THEN NoOptimizer
    ELSE <<IF enable_lars THEN "LARSOptimizer" ELSE "MomentumOptimizer", "ZooOptimizer">>
         \o (IF mpi > 1 THEN <<"DistributedOptimizer">> ELSE <<>>)

AssembleOptimizer(m, enable_lars, mpi) ==
    IF m # "TRAIN" THEN NoOptimizer
    ELSE <<IF enable_lars THEN "LARSOptimizer" ELSE "MomentumOptimizer",    \* lines 375-385
           "ZooOptimizer">>                                                 \* line 388
         \o (IF mpi # 0 THEN <<"DistributedOptimizer">> ELSE <<>>)          \* lines 389-390

----------------------------------------------------------------------------
(* The import of the module (lines 40-47): horovod is either absent        *)
(* (ImportError) or initialised with the size and rank of the job the      *)
(* process was launched in; a process launched alone has size 1.           *)

HvdAbsent == [installed |-> FALSE, size |-> 0, rank |-> 0]

HvdWorlds ==
    {HvdAbsent} \cup
    UNION {{[installed |-> TRUE, size |-> s, rank |-> r] : r \in 0..(s - 1)} :
           s \in 1..MaxWorkers}

ImportModule(h) == IF h.installed THEN h.size ELSE 0

----------------------------------------------------------------------------
(* resnet_main (lines 468-570).                                            *)

DriverBatchSizes == {427055, 640582, 640583, 1281167, 1281168}

FlagSets ==
    [batch_size : DriverBatchSizes,
     num_gpus : 0..MaxGpus,
     train_epochs : 0..MaxTrainEpochs,
     epochs_between_evals : 1..MaxEpochsBetweenEvals,
     loss_scale : {1, 128},
     enable_lars : {FALSE}]

(* The jobs the driver is run in: without horovod, or as the first of two  *)
(* horovod workers.                                                        *)
DriverWorlds == {HvdAbsent, [installed |-> TRUE, size |-> 2, rank |-> 0]}

num_workers == node_num                                          \* line 529

StepsPerEpochRoundedUp ==
    (_NUM_IMAGES.train + flags.batch_size - 1) \div flags.batch_size

steps_per_epoch == _NUM_IMAGES.train \div flags.batch_size       \* line 562

NumChunksRoundedUp ==
    (flags.train_epochs + flags.epochs_between_evals - 1) \div flags.epochs_between_evals

NumChunksAtLeastOne ==
    IF flags.train_epochs < flags.epochs_between_evals THEN 1
    ELSE flags.train_epochs \div flags.epochs_between_evals

NumChunks == flags.train_epochs \div flags.epochs_between_evals  \* line 564

(* An estimator call: its steps argument and the batch_size its input     *)
(* function hands to TFDataset (line 540; the evaluation's                 *)
(* batch_per_thread is left out).                                          *)
TrainCall(n) ==
    [op |-> "train", steps |-> n, batch_size |-> flags.batch_size * num_workers]
EvaluateCall == [op |-> "evaluate", steps |-> 0, batch_size |-> 0]

DriverInit ==
    /\ flags \in FlagSets
    /\ pc = "Idle"
    /\ i = 0
    /\ steps_left = 0
    /\ global_step = 0
    /\ calls = <<>>
    /\ error = ""
    /\ mode = "NONE"
    /\ train_op = NoTrainOp
    /\ batches = 0
    /\ optimizer = NoOptimizer
    /\ hvd \in DriverWorlds
    /\ is_mpi = ImportModule(hvd)
    /\ node_num \in 1..MaxNodes

(* The head of the for loop with loop variable k: either the next          *)
(* iteration starts with estimator.train (line 567) or the loop is over.   *)
LoopHead(k) ==
    IF k < NumChunks
    THEN /\ pc' = "TrainingChunk"
         /\ i' = k
         /\ steps_left' = steps_per_epoch * flags.epochs_between_evals
         /\ calls' = Append(calls, TrainCall(steps_per_epoch * flags.epochs_between_evals))
         /\ mode' = "TRAIN"
         /\ train_op' = resnet_model_fn("TRAIN", flags.loss_scale)
         /\ optimizer' = AssembleOptimizer("TRAIN", flags.enable_lars, is_mpi)
         /\ batches' = 0
    ELSE /\ pc' = "Done"
         /\ i' = k
         /\ UNCHANGED <<steps_left, calls, mode, train_op, batches, optimizer>>

(* Idle -> TrainingChunk | Done: the loop is entered.                      *)
StartLoop ==
    /\ pc = "Idle"
    /\ LoopHead(0)
    /\ UNCHANGED <<flags, global_step, error>>
    /\ UNCHANGED <<batch_vars, lr_vars, world_vars, pipe_vars, export_vars, env_vars>>

(* One training step of the running estimator.train call.                  *)
TrainStep ==
    /\ pc = "TrainingChunk"
    /\ steps_left > 0
    /\ global_step' = SessionRun(train_op, global_step)
    /\ steps_left' = steps_left - 1
    /\ batches' = batches + 1
    /\ UNCHANGED <<flags, pc, i, calls, error, mode, train_op, optimizer>>
    /\ UNCHANGED <<batch_vars, lr_vars, world_vars, pipe_vars, export_vars, env_vars>>

(* estimator.train returned; estimator.evaluate (line 569) calls           *)
(* input_fn_eval, which calls per_device_batch_size (line 547).            *)
StartEvaluate ==
    /\ pc = "TrainingChunk"
    /\ steps_left = 0
    /\ calls' = Append(calls, EvaluateCall)
    /\ LET r == per_device_batch_size(flags.batch_size, flags.num_gpus) IN
       IF r.kind = "raise"
       THEN /\ pc' = "Raised"
            /\ error' = r.error
            /\ UNCHANGED <<mode, train_op, batches, optimizer>>
       ELSE /\ pc' = "Evaluating"
            /\ error' = error
            /\ mode' = "EVALUATE"
            /\ train_op' = resnet_model_fn("EVALUATE", flags.loss_scale)
            /\ optimizer' = AssembleOptimizer("EVALUATE", flags.enable_lars, is_mpi)
            /\ batches' = 0
    /\ UNCHANGED <<flags, i, steps_left, global_step>>
    /\ UNCHANGED <<batch_vars, lr_vars, world_vars, pipe_vars, export_vars, env_vars>>

(* Evaluating -> TrainingChunk | Done: the evaluation ran over the         *)
(* validation set under a graph without a training operation, and the      *)
(* loop goes to its next iteration.                                        *)
FinishEvaluate ==
    /\ pc = "Evaluating"
    /\ global_step' = SessionRun(train_op, global_step)
    /\ LoopHead(i + 1)
    /\ UNCHANGED <<flags, error>>
    /\ UNCHANGED <<batch_vars, lr_vars, world_vars, pipe_vars, export_vars, env_vars>>

(* The variables of the other specifications while they are not in use.    *)
NoCall == [kind |-> "none", value |-> 0, error |-> ""]
BatchIdle == arg = [batch_size |-> 0, num_gpus |-> 0] /\ res = NoCall
NoRate == [kind |-> "none", n |-> 0, d |-> 1]
NoLrCfg ==
    [batch_size |-> 1, batch_denom |-> 1, num_images |-> 1, boundary_epochs |-> <<>>,
     decay_rates |-> <<>>, base_lr |-> [n |-> 0, d |-> 1], enable_lars |-> FALSE,
     train_epochs |-> 0, flags_bound |-> FALSE]
LrIdle ==
    /\ lr_cfg = NoLrCfg
    /\ lr_pc = "idle"
    /\ lr_step = -1
    /\ lr_val = NoRate
    /\ lr_prev = NoRate
DriverIdle ==
    /\ flags = [batch_size |-> 1, num_gpus |-> 0, train_epochs |-> 0,
                epochs_between_evals |-> 1, loss_scale |-> 1, enable_lars |-> FALSE]
    /\ pc = "idle"
    /\ i = 0
    /\ steps_left = 0
    /\ global_step = 0
    /\ calls = <<>>
    /\ error = ""
    /\ mode = "NONE"
    /\ train_op = NoTrainOp
    /\ batches = 0
    /\ optimizer = NoOptimizer
WorldIdle == hvd = HvdAbsent /\ is_mpi = 0 /\ node_num = 1
PipeIdle ==
    /\ ds_args = [is_training |-> FALSE, batch_size |-> 0, shuffle_buffer |-> 0]
    /\ ds_pc = "idle"
    /\ dataset = <<>>
NotExited == <<>>
ExportIdle ==
    /\ argv = <<>>
    /\ FLAGS = [model_version |-> 1, import_path |-> "", export_dir |-> "/tmp"]
    /\ files = [graph |-> "missing", export_dirs |-> {}]
    /\ ex_pc = "idle"
    /\ stdout = <<>>
    /\ exit_code = NotExited
    /\ imported = FALSE
    /\ saved = {}
Unset == "<unset>"
EnvIdle == environ = <<>> /\ env_call = <<>>

Init == DriverInit /\ BatchIdle /\ LrIdle /\ PipeIdle /\ ExportIdle /\ EnvIdle

Next == StartLoop \/ TrainStep \/ StartEvaluate \/ FinishEvaluate

Spec == Init /\ [][Next]_vars

(* The driver is one thread of blocking calls: a step that can be taken    *)
(* is taken.                                                               *)
FairSpec == Init /\ [][Next]_vars /\ WF_vars(Next)

----------------------------------------------------------------------------
(* SpecBatch: per_device_batch_size applied once to drawn arguments.       *)

BatchInit ==
    /\ arg \in [batch_size : 0..MaxBatch, num_gpus : 0..MaxDevices]
    /\ res = NoCall
    /\ DriverIdle
    /\ LrIdle
    /\ WorldIdle /\ PipeIdle /\ ExportIdle /\ EnvIdle

CallPerDevice ==
    /\ res.kind = "none"
    /\ res' = per_device_batch_size(arg.batch_size, arg.num_gpus)
    /\ UNCHANGED <<arg, driver_vars, lr_vars, world_vars, pipe_vars, export_vars, env_vars>>

BatchNext == CallPerDevice

SpecBatch == BatchInit /\ [][BatchNext]_vars

----------------------------------------------------------------------------
(* SpecModelFn: the estimator's use of resnet_model_fn.  Each estimator    *)
(* call (train, evaluate, predict) builds the graph with model_fn in its   *)
(* mode and runs it on some batches.                                       *)

ModelFnInit ==
    /\ flags \in [batch_size : {1}, num_gpus : {0}, train_epochs : {0},
                  epochs_between_evals : {1}, loss_scale : LossScales,
                  enable_lars : BOOLEAN]
    /\ pc = "Estimator"
    /\ i = 0
    /\ steps_left = 0
    /\ global_step = 0
    /\ calls = <<>>
    /\ error = ""
    /\ mode = "NONE"
    /\ train_op = NoTrainOp
    /\ batches = 0
    /\ optimizer = NoOptimizer
    /\ hvd \in HvdWorlds
    /\ is_mpi = ImportModule(hvd)
    /\ node_num = 1
    /\ BatchIdle
    /\ LrIdle
    /\ PipeIdle /\ ExportIdle /\ EnvIdle

EstimatorCall(m, n) ==
    /\ pc = "Estimator"
    /\ steps_left = 0
    /\ i < MaxModelCalls
    /\ i' = i + 1
    /\ mode' = m
    /\ train_op' = resnet_model_fn(m, flags.loss_scale)
    /\ optimizer' = AssembleOptimizer(m, flags.enable_lars, is_mpi)
    /\ steps_left' = n
    /\ batches' = 0
    /\ UNCHANGED <<flags, pc, global_step, calls, error>>
    /\ UNCHANGED <<batch_vars, lr_vars, world_vars, pipe_vars, export_vars, env_vars>>

RunBatch ==
    /\ pc = "Estimator"
    /\ steps_left > 0
    /\ global_step' = SessionRun(train_op, global_step)
    /\ steps_left' = steps_left - 1
    /\ batches' = batches + 1
    /\ UNCHANGED <<flags, pc, i, calls, error, mode, train_op, optimizer>>
    /\ UNCHANGED <<batch_vars, lr_vars, world_vars, pipe_vars, export_vars, env_vars>>

ModelFnNext ==
    \/ \E m \in Modes, n \in 1..MaxModelBatches : EstimatorCall(m, n)
    \/ RunBatch

SpecModelFn == ModelFnInit /\ [][ModelFnNext]_vars

----------------------------------------------------------------------------
(* Arithmetic of the learning-rate schedules.  The code computes in        *)
(* floating point; the model computes the same expressions on exact        *)
(* rationals [n, d] (d > 0, lowest terms), so rounding is left out.  A     *)
(* floating-point division by zero raises nothing: it yields inf or nan.   *)

RECURSIVE GCD(_, _)
GCD(a, b) == IF b = 0 THEN a ELSE GCD(b, a % b)

Abs(x) == IF x < 0 THEN -x ELSE x

LCM(a, b) == (a \div GCD(a, b)) * b

Rat(n, d) == LET g == GCD(Abs(n), d) IN [n |-> n \div g, d |-> d \div g]

RInt(k) == [n |-> k, d |-> 1]

RMul(a, b) ==
    LET g1 == GCD(Abs(a.n), b.d)
        g2 == GCD(Abs(b.n), a.d)
    IN  Rat((a.n \div g1) * (b.n \div g2), (a.d \div g2) * (b.d \div g1))

RInv(a) == IF a.n < 0 THEN [n |-> -a.d, d |-> -a.n] ELSE [n |-> a.d, d |-> a.n]

RDiv(a, b) == RMul(a, RInv(b))

RAdd(a, b) ==
    LET l == LCM(a.d, b.d) IN Rat(a.n * (l \div a.d) + b.n * (l \div b.d), l)

RSub(a, b) == RAdd(a, [n |-> -b.n, d |-> b.d])

RLe(a, b) ==
    LET l == LCM(a.d, b.d) IN a.n * (l \div a.d) <= b.n * (l \div b.d)

RLt(a, b) == ~RLe(b, a)

RMin(a, b) == IF RLe(a, b) THEN a ELSE b

(* Python's int() of a float: truncation towards zero.                     *)
Trunc(r) == IF r.n >= 0 THEN r.n \div r.d ELSE -((-r.n) \div r.d)

(* Float values: a number, nan or inf.                                     *)
Num(r) == [kind |-> "num", n |-> r.n, d |-> r.d]
NaN == [kind |-> "nan", n |-> 0, d |-> 1]
Inf == [kind |-> "inf", n |-> 0, d |-> 1]
NameError == [kind |-> "NameError", n |-> 0, d |-> 1]
RatOf(v) == [n |-> v.n, d |-> v.d]

(* x / k in float32 for a number x and a step count k >= 0.                *)
FloatDiv(x, k) ==
    IF k = 0 THEN (IF x.n = 0 THEN NaN ELSE Inf)
    ELSE Num(RDiv(x, RInt(k)))

----------------------------------------------------------------------------
(* learning_rate_with_decay (lines 148-235).  c is the record of its       *)
(* arguments, with the train_epochs flag and whether the free name `flags' *)
(* of poly_rate_fn (line 219) is bound in the module's globals when the    *)
(* schedule is called: the module itself never binds it.                   *)

initial_learning_rate(c) ==                                      \* line 171
    RDiv(RMul(c.base_lr, RInt(c.batch_size)), RInt(c.batch_denom))

batches_per_epoch(c) == Rat(c.num_images, c.batch_size)          \* line 172

boundaries(c) ==                                                 \* line 175
    [k \in DOMAIN c.boundary_epochs |->
        Trunc(RMul(batches_per_epoch(c), RInt(c.boundary_epochs[k])))]

vals(c) ==                                                       \* line 176
    [k \in DOMAIN c.decay_rates |-> RMul(initial_learning_rate(c), c.decay_rates[k])]

(* tf.compat.v1.train.piecewise_constant(x, bs, vs).                       *)
piecewise_constant(x, bs, vs) ==
    IF x <= bs[1] THEN vs[1]
    ELSE IF x > bs[Len(bs)] THEN vs[Len(vs)]
    ELSE LET k == CHOOSE k \in 1..(Len(bs) - 1) : bs[k] < x /\ x <= bs[k + 1]
         IN  vs[k + 1]

warmup_steps(c) == Trunc(RMul(batches_per_epoch(c), RInt(5)))    \* line 180

LearningRateNoWarmup(c, gs) ==
    Num(piecewise_constant(gs, boundaries(c), vals(c)))

learning_rate_fn(c, gs) ==                                       \* lines 178-184
    LET lr == Num(piecewise_constant(gs, boundaries(c), vals(c)))
        warmup_lr ==
            FloatDiv(RMul(initial_learning_rate(c), RInt(gs)), warmup_steps(c))
    IN  IF gs < warmup_steps(c) THEN warmup_lr ELSE lr

PolyTableStrict(batch_size) ==
    IF batch_size < 4096 THEN [plr |-> 5, w_epochs |-> 5]
    ELSE IF batch_size < 8192 THEN [plr |-> 10, w_epochs |-> 5]
    ELSE IF batch_size < 16384 THEN [plr |-> 25, w_epochs |-> 5]
    ELSE [plr |-> 33, w_epochs |-> 25]

(* The warm-up table of poly_rate_fn (lines 201-213).                      *)
PolyTable(batch_size) ==
    IF batch_size <= 4096 THEN [plr |-> 5, w_epochs |-> 5]
    ELSE IF batch_size <= 8192 THEN [plr |-> 10, w_epochs |-> 5]
    ELSE IF batch_size <= 16384 THEN [plr |-> 25, w_epochs |-> 5]
    ELSE [plr |-> 33, w_epochs |-> 25]

w_steps(c) ==                                                    \* line 215
    Trunc(RMul(RInt(PolyTable(c.batch_size).w_epochs), batches_per_epoch(c)))

train_steps(c) == RMul(batches_per_epoch(c), RInt(c.train_epochs))   \* lines 219-220

Max(a, b) == IF a >= b THEN a ELSE b

decay_steps(c, gs) == Max(1, gs - w_steps(c))                    \* lines 222-223

(* The third argument of the polynomial_decay call (line 227).             *)
PolyDecaySpan(c) == RAdd(RSub(train_steps(c), RInt(w_steps(c))), RInt(1))

(* polynomial_decay is called without end_learning_rate: the framework's   *)
(* default, 0.0001, applies.                                               *)
EndLearningRate == [n |-> 1, d |-> 10000]

(* tf.compat.v1.train.polynomial_decay(learning_rate, global_step,         *)
(* decay_steps, power = 2.0), cycle = False:                               *)
(*   (learning_rate - end) * (1 - min(global_step, decay_steps) /          *)
(*                                decay_steps) ^ 2 + end                   *)
polynomial_decay(learning_rate, g, span) ==
    LET m == RMin(RInt(g), span) IN
    IF span.n = 0 THEN (IF m.n = 0 THEN NaN ELSE Inf)
    ELSE LET p == RDiv(m, span)
             q == RSub(RInt(1), p)
         IN  Num(RAdd(RMul(RSub(learning_rate, EndLearningRate), RMul(q, q)),
                      EndLearningRate))

PolyRateDecaysToZero(c, gs) ==
    LET plr == RInt(PolyTable(c.batch_size).plr)
        wrate == FloatDiv(RMul(plr, RInt(gs)), w_steps(c))
        span == RSub(train_steps(c), RInt(w_steps(c)))
        m == RMin(RInt(gs - w_steps(c)), span)
        q == IF span.n = 0 THEN RInt(0) ELSE RSub(RInt(1), RDiv(m, span))
    IN  IF ~c.flags_bound THEN NameError
        ELSE IF gs <= w_steps(c) THEN wrate
        ELSE Num(RMul(plr, RMul(q, q)))

poly_rate_fn(c, gs) ==                                           \* lines 186-229
    LET plr == RInt(PolyTable(c.batch_size).plr)
        wrate == FloatDiv(RMul(plr, RInt(gs)), w_steps(c))
        poly_rate == polynomial_decay(plr, decay_steps(c, gs), PolyDecaySpan(c))
    IN  IF ~c.flags_bound THEN NameError                         \* line 219
        ELSE IF gs <= w_steps(c) THEN wrate ELSE poly_rate       \* line 229

(* What learning_rate_with_decay does: it raises at line 172 for a zero    *)
(* batch size, and otherwise returns one of the two schedules (lines       *)
(* 231-235).                                                               *)
learning_rate_with_decay(c) ==
    IF c.batch_denom = 0 \/ c.batch_size = 0 THEN "ZeroDivisionError"
    ELSE IF c.enable_lars THEN "poly_rate_fn"
    ELSE "learning_rate_fn"

----------------------------------------------------------------------------
(* SpecLR: learning_rate_with_decay is called once and the schedule it     *)
(* returns is evaluated at the global steps 0, 1, 2, ... in turn, as the   *)
(* training graph does (line 361).                                         *)

LrBatchSizes == {0, 4096, 4097, 8192, 8193, 16384, 16385, 32768}

(* Dataset sizes that keep the steps per epoch small.                      *)
NumImagesFor(b) ==
    IF b = 0 THEN {1}
    ELSE {b * k : k \in 1..MaxEpochBatches}
            \cup (IF b % 8 = 0 THEN {b \div 8, b \div 2, (3 * b) \div 2} ELSE {})

LrTrainEpochs == {1, 4, 5, 6, 7, 26}

Tenth == [n |-> 1, d |-> 10]
Hundredth == [n |-> 1, d |-> 100]

(* Decay lists as the docstring describes them: boundary epochs ascending, *)
(* one more rate than boundaries, rates non-negative and non-increasing.   *)
LrDecays ==
    {[boundary_epochs |-> <<6, 8>>, decay_rates |-> <<RInt(1), Tenth, Hundredth>>],
     [boundary_epochs |-> <<2, 6>>, decay_rates |-> <<RInt(1), Tenth, Tenth>>]}

LrConfigs ==
    {[batch_size |-> b, batch_denom |-> 256, num_images |-> ni,
      boundary_epochs |-> dc.boundary_epochs, decay_rates |-> dc.decay_rates,
      base_lr |-> Tenth, enable_lars |-> el, train_epochs |-> te, flags_bound |-> fb] :
        b \in LrBatchSizes, ni \in UNION {NumImagesFor(x) : x \in LrBatchSizes},
        dc \in LrDecays, el \in BOOLEAN, te \in LrTrainEpochs, fb \in BOOLEAN}

LrInit ==
    /\ lr_cfg \in {c \in LrConfigs : c.num_images \in NumImagesFor(c.batch_size)}
    /\ lr_pc = "start"
    /\ lr_step = -1
    /\ lr_val = NoRate
    /\ lr_prev = NoRate
    /\ DriverIdle
    /\ BatchIdle
    /\ WorldIdle /\ PipeIdle /\ ExportIdle /\ EnvIdle

LrConstruct ==
    /\ lr_pc = "start"
    /\ lr_pc' = learning_rate_with_decay(lr_cfg)
    /\ UNCHANGED <<lr_cfg, lr_step, lr_val, lr_prev>>
    /\ UNCHANGED <<driver_vars, batch_vars, world_vars, pipe_vars, export_vars, env_vars>>

(* learning_rate = learning_rate_fn(global_step) at the next global step.  *)
LrEvalA ==
    /\ lr_pc = "learning_rate_fn"
    /\ lr_step < MaxLrStep
    /\ lr_step' = lr_step + 1
    /\ lr_prev' = lr_val
    /\ lr_val' = learning_rate_fn(lr_cfg, lr_step + 1)
    /\ UNCHANGED <<lr_cfg, lr_pc>>
    /\ UNCHANGED <<driver_vars, batch_vars, world_vars, pipe_vars, export_vars, env_vars>>

LrEvalB ==
    /\ lr_pc = "poly_rate_fn"
    /\ lr_step < MaxLrStep
    /\ lr_step' = lr_step + 1
    /\ lr_prev' = lr_val
    /\ lr_val' = poly_rate_fn(lr_cfg, lr_step + 1)
    /\ lr_pc' = IF lr_val'.kind = "NameError" THEN "NameError" ELSE lr_pc
    /\ UNCHANGED <<lr_cfg>>
    /\ UNCHANGED <<driver_vars, batch_vars, world_vars, pipe_vars, export_vars, env_vars>>

LrNext == LrConstruct \/ LrEvalA \/ LrEvalB

SpecLR == LrInit /\ [][LrNext]_vars

----------------------------------------------------------------------------
(* SpecPipeline: process_record_dataset (lines 60-117), one action per     *)
(* statement that transforms the dataset.  A transformation is its name    *)
(* and its (at most two) integer arguments.                                *)

AUTOTUNE == -1

Stage(op, a, b) == [op |-> op, a |-> a, b |-> b]

PipelineArgs ==
    [is_training : BOOLEAN, batch_size : {32, 256}, shuffle_buffer : {1500, 10000}]

ShardStageAboveOneWorker(mpi, h) ==
    IF mpi > 1 THEN <<Stage("shard", h.size, h.rank)>> ELSE <<>>

(* Lines 87-88: `if is_mpi:` is true of any integer but 0.                 *)
ShardStage(mpi, h) ==
    IF mpi # 0 THEN <<Stage("shard", h.size, h.rank)>> ELSE <<>>

PipelineInit ==
    /\ ds_args \in PipelineArgs
    /\ ds_pc = "prefetch"
    /\ dataset = <<>>
    /\ hvd \in HvdWorlds
    /\ is_mpi = ImportModule(hvd)
    /\ node_num = 1
    /\ DriverIdle /\ BatchIdle /\ LrIdle /\ ExportIdle /\ EnvIdle

OtherUnchangedByPipeline ==
    UNCHANGED <<ds_args, driver_vars, batch_vars, lr_vars, world_vars, export_vars, env_vars>>

(* Line 85, and the test of line 86.                                       *)
PrefetchRaw ==
    /\ ds_pc = "prefetch"
    /\ dataset' = Append(dataset, Stage("prefetch", ds_args.batch_size, 0))
    /\ ds_pc' = IF ds_args.is_training THEN "shard" ELSE "map"
    /\ OtherUnchangedByPipeline

(* Lines 87-88.                                                            *)
Shard ==
    /\ ds_pc = "shard"
    /\ dataset' = dataset \o ShardStage(is_mpi, hvd)
    /\ ds_pc' = "shuffle"
    /\ OtherUnchangedByPipeline

(* Line 92.                                                                *)
Shuffle ==
    /\ ds_pc = "shuffle"
    /\ dataset' = Append(dataset, Stage("shuffle", ds_args.shuffle_buffer, 0))
    /\ ds_pc' = "map"
    /\ OtherUnchangedByPipeline

(* Line 107; the repeat and map_and_batch of lines 94-105 are comments.    *)
MapParse ==
    /\ ds_pc = "map"
    /\ dataset' = Append(dataset, Stage("map", AUTOTUNE, 0))
    /\ ds_pc' = "final_prefetch"
    /\ OtherUnchangedByPipeline

(* Lines 115-117.                                                          *)
PrefetchParsed ==
    /\ ds_pc = "final_prefetch"
    /\ dataset' = Append(dataset, Stage("prefetch", AUTOTUNE, 0))
    /\ ds_pc' = "return"
    /\ OtherUnchangedByPipeline

PipelineNext == PrefetchRaw \/ Shard \/ Shuffle \/ MapParse \/ PrefetchParsed

SpecPipeline == PipelineInit /\ [][PipelineNext]_vars

----------------------------------------------------------------------------
(* SpecExport: the export script wide_deep_graph_to_saved_model.py.  An    *)
(* element of sys.argv is a word: a flag "--name=value" (name, its text    *)
(* and, for an integer flag, its number) or a positional word (name "").   *)
(* A directory path export_dir + '/' + str(model_version) is the pair of   *)
(* its two parts.                                                          *)

ProgramName == [name |-> "", text |-> "wide_deep_graph_to_saved_model.py", int |-> 0]

ArgWords ==
    {[name |-> "", text |-> "out", int |-> 0],
     [name |-> "import_path", text |-> "graph.pb", int |-> 0],
     [name |-> "export_dir", text |-> "/out", int |-> 0],
     [name |-> "model_version", text |-> "-1", int |-> -1],
     [name |-> "model_version", text |-> "0", int |-> 0],
     [name |-> "model_version", text |-> "2", int |-> 2]}

CommandLines ==
    UNION {{<<ProgramName>> \o a : a \in [1..n -> ArgWords]} : n \in 0..MaxArgs}

(* The value the flag library gives a flag: that of its last occurrence    *)
(* on the command line, the default of its definition otherwise.           *)
LastOf(a, name) ==
    LET S == {k \in 1..Len(a) : a[k].name = name} IN
    IF S = {} THEN 0 ELSE CHOOSE k \in S : \A j \in S : j <= k

ParseFlags(a) ==
    [model_version |-> IF LastOf(a, "model_version") = 0 THEN 1             \* line 30
                       ELSE a[LastOf(a, "model_version")].int,
     import_path |-> IF LastOf(a, "import_path") = 0 THEN ""                \* line 31
                     ELSE a[LastOf(a, "import_path")].text,
     export_dir |-> IF LastOf(a, "export_dir") = 0 THEN "/tmp"              \* line 32
                    ELSE a[LastOf(a, "export_dir")].text]

startswith_dash(w) == w.name # ""

UsageMessage ==
    "Usage: wide_deep_graph_to_saved_model.py [--model_version=y] import_path export_dir"
PathMessage ==
    "Please specify the path to the model graph you want to convert to SavedModel format."
VersionMessage == "Please specify a positive value for version number."
ExportingMessage == "Exporting trained model to"
DoneMessage == "Done!"

(* What the file at import_path holds, and the version directories that    *)
(* exist before the run.                                                   *)
GraphFiles == {"missing", "other graph", "wide and deep graph"}
ExistingDirs == {{}, {<<"/tmp", 1>>, <<"/out", 2>>}}

ExportPath == <<FLAGS.export_dir, FLAGS.model_version>>          \* line 74

UsageRejected == Len(argv) < 2 \/ startswith_dash(argv[Len(argv)])     \* line 38
PathRejected == FLAGS.import_path = ""                                  \* line 41
VersionRejectedBelowZero == FLAGS.model_version < 0
VersionRejected == FLAGS.model_version <= 0                             \* line 44

ExportInit ==
    /\ argv \in CommandLines
    /\ FLAGS = ParseFlags(argv)
    /\ files \in [graph : GraphFiles, export_dirs : ExistingDirs]
    /\ ex_pc = "main"
    /\ stdout = <<>>
    /\ exit_code = NotExited
    /\ imported = FALSE
    /\ saved = {}
    /\ DriverIdle /\ BatchIdle /\ LrIdle /\ WorldIdle /\ PipeIdle /\ EnvIdle

(* print(message); sys.exit(code).                                         *)
ExitWith(message, code) ==
    /\ stdout' = Append(stdout, message)
    /\ exit_code' = <<code>>
    /\ ex_pc' = "exited"

(* An exception nothing catches ends the process with status 1.            *)
Uncaught ==
    /\ exit_code' = <<1>>
    /\ ex_pc' = "exited"

OtherUnchangedByExport ==
    UNCHANGED <<driver_vars, batch_vars, lr_vars, world_vars, pipe_vars, env_vars>>

(* Lines 38-40.                                                            *)
CheckUsage ==
    /\ ex_pc = "main"
    /\ IF UsageRejected
       THEN ExitWith(UsageMessage, -1)
       ELSE ex_pc' = "check_path" /\ UNCHANGED <<stdout, exit_code>>
    /\ UNCHANGED <<argv, FLAGS, files, imported, saved>>
    /\ OtherUnchangedByExport

(* Lines 41-43.                                                            *)
CheckImportPath ==
    /\ ex_pc = "check_path"
    /\ IF PathRejected
       THEN ExitWith(PathMessage, -1)
       ELSE ex_pc' = "check_version" /\ UNCHANGED <<stdout, exit_code>>
    /\ UNCHANGED <<argv, FLAGS, files, imported, saved>>
    /\ OtherUnchangedByExport

(* Lines 44-46.                                                            *)
CheckVersion ==
    /\ ex_pc = "check_version"
    /\ IF VersionRejected
       THEN ExitWith(VersionMessage, -1)
       ELSE ex_pc' = "import" /\ UNCHANGED <<stdout, exit_code>>
    /\ UNCHANGED <<argv, FLAGS, files, imported, saved>>
    /\ OtherUnchangedByExport

(* Lines 49-57: the graph file is read and imported into the session.      *)
ImportGraph ==
    /\ ex_pc = "import"
    /\ IF files.graph = "missing"
       THEN Uncaught /\ UNCHANGED imported
       ELSE ex_pc' = "signature" /\ imported' = TRUE /\ UNCHANGED exit_code
    /\ UNCHANGED <<argv, FLAGS, files, stdout, saved>>
    /\ OtherUnchangedByExport

(* Lines 60-71: the three tensors are looked up by name.                   *)
BuildSignature ==
    /\ ex_pc = "signature"
    /\ IF files.graph # "wide and deep graph"
       THEN Uncaught
       ELSE ex_pc' = "save" /\ UNCHANGED exit_code
    /\ UNCHANGED <<argv, FLAGS, files, stdout, imported, saved>>
    /\ OtherUnchangedByExport

(* Lines 74-82: the builder refuses a directory that exists.               *)
SaveModel ==
    /\ ex_pc = "save"
    /\ stdout' = Append(stdout, ExportingMessage)
    /\ IF ExportPath \in files.export_dirs
       THEN Uncaught /\ UNCHANGED <<files, saved>>
       ELSE /\ ex_pc' = "done"
            /\ saved' = saved \cup {ExportPath}
            /\ files' = [files EXCEPT !.export_dirs = @ \cup {ExportPath}]
            /\ UNCHANGED exit_code
    /\ UNCHANGED <<argv, FLAGS, imported>>
    /\ OtherUnchangedByExport

(* Line 85; main returns and tf.app.run exits with status 0.               *)
PrintDone ==
    /\ ex_pc = "done"
    /\ ExitWith(DoneMessage, 0)
    /\ UNCHANGED <<argv, FLAGS, files, imported, saved>>
    /\ OtherUnchangedByExport

ExportNext ==
    \/ CheckUsage
    \/ CheckImportPath
    \/ CheckVersion
    \/ ImportGraph
    \/ BuildSignature
    \/ SaveModel
    \/ PrintDone

SpecExport == ExportInit /\ [][ExportNext]_vars

----------------------------------------------------------------------------
(* SpecEnv: set_env_var of benchmarks/common/base_model_init.py as its     *)
(* tests (tests/unit/common/test_base_model_init.py) use it.  os.environ  *)
(* maps each name to its value, Unset when the name is not in it.          *)

EnvNames == {"model-zoo-test-env-var-name", "OMP_NUM_THREADS"}
EnvValues == {"original", "modified", "new_value"}

SetEnvVarAlwaysOverwrites(env, env_var, value, overwrite_existing) ==
    [env EXCEPT ![env_var] = value]

set_env_var(env, env_var, value, overwrite_existing) ==
    IF overwrite_existing \/ env[env_var] = Unset
    THEN [env EXCEPT ![env_var] = value]
    ELSE env

EnvInit ==
    /\ environ \in [EnvNames -> EnvValues \cup {Unset}]
    /\ env_call = <<>>
    /\ DriverIdle /\ BatchIdle /\ LrIdle /\ WorldIdle /\ PipeIdle /\ ExportIdle

OtherUnchangedByEnv ==
    UNCHANGED <<driver_vars, batch_vars, lr_vars, world_vars, pipe_vars, export_vars>>

(* set_env_var(env_var, value, overwrite_existing=...), as at lines 101,   *)
(* 107, 127 and 135 of the tests.                                          *)
CallSetEnvVar(env_var, value, overwrite_existing) ==
    /\ environ' = set_env_var(environ, env_var, value, overwrite_existing)
    /\ env_call' = <<[env_var |-> env_var, value |-> value,
                      overwrite_existing |-> overwrite_existing,
                      before |-> environ[env_var]]>>
    /\ OtherUnchangedByEnv

(* os.environ[env_var] = value (line 98).                                  *)
AssignEnviron(env_var, value) ==
    /\ environ[env_var] # value
    /\ environ' = [environ EXCEPT ![env_var] = value]
    /\ env_call' = <<>>
    /\ OtherUnchangedByEnv

(* del os.environ[env_var] (lines 111, 123, 133, 141).                     *)
DelEnviron(env_var) ==
    /\ environ[env_var] # Unset
    /\ environ' = [environ EXCEPT ![env_var] = Unset]
    /\ env_call' = <<>>
    /\ OtherUnchangedByEnv

EnvNext ==
    \/ \E n \in EnvNames, v \in EnvValues, o \in BOOLEAN : CallSetEnvVar(n, v, o)
    \/ \E n \in EnvNames, v \in EnvValues : AssignEnviron(n, v)
    \/ \E n \in EnvNames : DelEnviron(n)

SpecEnv == EnvInit /\ [][EnvNext]_vars

----------------------------------------------------------------------------
\* ===== properties =====
----------------------------------------------------------------------------
(* Helpers of the properties.                                              *)

NumCalls(op) == Cardinality({k \in 1..Len(calls) : calls[k].op = op})

(* The estimator calls alternate, starting with a training call.           *)
Alternating ==
    \A k \in 1..Len(calls) : calls[k].op = (IF k % 2 = 1 THEN "train" ELSE "evaluate")

(* The flags pass the batch/device divisibility check.                     *)
Divisible == flags.num_gpus <= 1 \/ flags.batch_size % flags.num_gpus = 0

----------------------------------------------------------------------------
(* C1: the driver's estimator calls always alternate train, evaluate,      *)
(* starting with train (never two training chunks or two evaluations in a  *)
(* row); when it reaches Done it has made exactly                          *)
(* floor(train_epochs / epochs_between_evals) training calls and as many   *)
(* evaluations (5 of each for train_epochs = 10, epochs_between_evals =    *)
(* 2); and every run whose flags pass the divisibility check reaches Done. *)
C1_Cycles ==
    /\ [](Alternating)
    /\ [](pc = "Done" =>
            /\ NumCalls("train") = flags.train_epochs \div flags.epochs_between_evals
            /\ NumCalls("evaluate") = flags.train_epochs \div flags.epochs_between_evals
            /\ (flags.train_epochs = 10 /\ flags.epochs_between_evals = 2
                    => Len(calls) = 10 /\ NumCalls("train") = 5))
    /\ (Divisible ~> pc = "Done")

C1_Witness ==
    /\ pc = "Done"
    /\ flags.train_epochs = 10
    /\ flags.epochs_between_evals = 2
    /\ NumCalls("train") = 5
    /\ NumCalls("evaluate") = 5

(* C2: when the driver has raised the batch/device configuration error,    *)
(* no estimator.train call was made before it.                             *)
C2_ErrorBeforeAnyTraining ==
    (pc = "Raised" /\ error = "ValueError") => NumCalls("train") = 0

(* C3: a call of per_device_batch_size with b mod d = 0 (d > 1) returns    *)
(* exactly b / d, and a call with d <= 1 returns b unchanged.              *)
C3_ExactQuotient ==
    res.kind # "none" =>
        /\ (arg.num_gpus <= 1 => res = Return(arg.batch_size))
        /\ (arg.num_gpus > 1 /\ arg.batch_size % arg.num_gpus = 0 =>
                /\ res.kind = "return"
                /\ res.value * arg.num_gpus = arg.batch_size)

C3_Witness ==
    /\ res.kind = "return"
    /\ arg.num_gpus = 4
    /\ arg.batch_size = 24
    /\ res.value = 6

(* C4: a call of per_device_batch_size with b mod d # 0 raises ValueError  *)
(* and returns no value.                                                   *)
C4_RaisesOnRemainder ==
    (res.kind # "none" /\ arg.num_gpus > 1 /\ arg.batch_size % arg.num_gpus # 0) =>
        res = Raise("ValueError")

C4_Witness ==
    /\ res.kind = "raise"
    /\ arg.num_gpus = 4
    /\ arg.batch_size = 22

----------------------------------------------------------------------------
(* Helpers of the learning-rate properties.                                *)

Returned == lr_pc \in {"learning_rate_fn", "poly_rate_fn"}

(* The final training step: train_epochs epochs of steps.                  *)
FinalStep == Rat(lr_cfg.train_epochs * lr_cfg.num_images, lr_cfg.batch_size)

(* The warm-up boundary step of the schedule in use.                       *)
WarmupBoundary ==
    IF lr_cfg.enable_lars
    THEN (PolyTable(lr_cfg.batch_size).w_epochs * lr_cfg.num_images) \div lr_cfg.batch_size
    ELSE (5 * lr_cfg.num_images) \div lr_cfg.batch_size

(* C5: under Policy A every rate is a number >= 0; while step <            *)
(* warmup_steps (5 epochs of steps) each rate is strictly above the one    *)
(* of the step before; from warmup_steps on the rate is one of the         *)
(* piecewise values and never above the one of the step before.  (Base     *)
(* rate positive, decay rates non-negative and non-increasing, boundary    *)
(* epochs ascending.)                                                      *)
C5_PolicyA ==
    (lr_pc = "learning_rate_fn" /\ lr_step >= 0) =>
        LET w == (5 * lr_cfg.num_images) \div lr_cfg.batch_size
            ilr == Rat(lr_cfg.base_lr.n * lr_cfg.batch_size,
                       lr_cfg.base_lr.d * lr_cfg.batch_denom)
        IN  /\ lr_val.kind = "num"
            /\ lr_val.n >= 0
            /\ (lr_step >= 1 /\ lr_step < w => RLt(RatOf(lr_prev), RatOf(lr_val)))
            /\ (lr_step < w => RatOf(lr_val) = Rat(ilr.n * lr_step, ilr.d * w))
            /\ (lr_step >= w =>
                    \E k \in DOMAIN lr_cfg.decay_rates :
                        RatOf(lr_val) = RMul(ilr, lr_cfg.decay_rates[k]))
            /\ (lr_step - 1 >= w => RLe(RatOf(lr_val), RatOf(lr_prev)))

C5_Witness ==
    /\ lr_pc = "learning_rate_fn"
    /\ (5 * lr_cfg.num_images) \div lr_cfg.batch_size = 10
    /\ lr_step = 17
    /\ lr_prev.kind = "num"
    /\ RLt(RatOf(lr_val), RatOf(lr_prev))

(* C6: Policy B's warm-up target rate and warm-up epochs for the batch     *)
(* size are (5, 5) up to 4096, (10, 5) up to 8192, (25, 5) up to 16384     *)
(* and (33, 25) above; the rate the schedule returns at the end of its     *)
(* warm-up is that target rate.                                            *)
C6_WarmupTable ==
    lr_pc \in {"poly_rate_fn", "NameError"} =>
        LET b == lr_cfg.batch_size
            t == PolyTable(b)
        IN  /\ (b <= 4096 => t.plr = 5 /\ t.w_epochs = 5)
            /\ (4096 < b /\ b <= 8192 => t.plr = 10 /\ t.w_epochs = 5)
            /\ (8192 < b /\ b <= 16384 => t.plr = 25 /\ t.w_epochs = 5)
            /\ (16384 < b => t.plr = 33 /\ t.w_epochs = 25)
            /\ (b = 4096 => t = [plr |-> 5, w_epochs |-> 5])
            /\ (b = 8192 => t = [plr |-> 10, w_epochs |-> 5])
            /\ (b = 16384 => t = [plr |-> 25, w_epochs |-> 5])
            /\ (b = 32768 => t = [plr |-> 33, w_epochs |-> 25])
            /\ (lr_pc = "poly_rate_fn" /\ lr_step > 0 /\ lr_step = w_steps(lr_cfg)
                    => lr_val = Num(RInt(t.plr)))

C6_Witness ==
    /\ lr_pc = "poly_rate_fn"
    /\ lr_cfg.batch_size = 32768
    /\ lr_cfg.num_images = 16384
    /\ lr_step = 12
    /\ lr_val = Num(RInt(33))

(* The configurations C7 is stated for: the schedule is Policy B and its   *)
(* call returns, and the warm-up is neither empty nor the whole schedule.  *)
PolyRegular ==
    /\ lr_pc = "poly_rate_fn"
    /\ lr_step >= 0
    /\ 0 < w_steps(lr_cfg)
    /\ RLt(RInt(w_steps(lr_cfg)), FinalStep)

C8_WarmupBeforeFinalStep ==
    Returned => RLt(RInt(WarmupBoundary), FinalStep)

(* C9: whenever learning_rate_with_decay has returned a schedule instead   *)
(* of reporting an error, the warm-up step count the schedule divides by   *)
(* is not zero.                                                            *)
C9_DegenerateReported ==
    Returned => WarmupBoundary # 0

(* C10: every step leaves the global step unchanged or adds one to it; it  *)
(* adds exactly one when a batch is processed in training mode, whatever   *)
(* the loss scale (the scaled and the unscaled branch alike), and leaves   *)
(* it unchanged otherwise; a graph built in evaluation or prediction mode  *)
(* has no training operation.                                              *)
C10_GlobalStep ==
    [][/\ global_step' >= global_step
       /\ global_step' =
            global_step + (IF mode = "TRAIN" /\ batches' = batches + 1 THEN 1 ELSE 0)
       /\ (mode' \in {"EVALUATE", "PREDICT"} => train_op' = NoTrainOp)]_vars

C10_Witness ==
    /\ mode = "PREDICT"
    /\ batches = 2
    /\ global_step = 2
    /\ flags.loss_scale = 128

----------------------------------------------------------------------------
(* C11: every estimator.train call the driver makes asks for              *)
(* (1281167 // batch_size) * epochs_between_evals steps, the same count    *)
(* for every chunk of the run.                                             *)
C11_ChunkSteps ==
    \A k \in 1..Len(calls) :
        calls[k].op = "train" =>
            /\ calls[k].steps =
                   (1281167 \div flags.batch_size) * flags.epochs_between_evals
            /\ \A j \in 1..Len(calls) :
                   calls[j].op = "train" => calls[j].steps = calls[k].steps

(* Two chunks of a run whose batch size does not divide the data set.      *)
C11_Witness ==
    /\ flags.batch_size = 640582
    /\ flags.epochs_between_evals = 2
    /\ NumCalls("train") >= 2
    /\ calls[1].steps = 4
    /\ calls[3].steps = 4

----------------------------------------------------------------------------
(* C12 as stated: whenever the import path is missing the script exits    *)
(* with -1 having printed the path message, whenever model_version <= 0    *)
(* it exits with -1 having printed the version message, whenever the       *)
(* command line has no argument it exits with -1, in each case with no     *)
(* graph imported and nothing written; valid inputs end with the model     *)
(* written to export_dir/model_version, 'Done!' printed and status 0.      *)
Printed(message) == \E k \in 1..Len(stdout) : stdout[k] = message

ValidExportInputs ==
    /\ ~UsageRejected
    /\ FLAGS.import_path # ""
    /\ FLAGS.model_version > 0
    /\ files.graph = "wide and deep graph"
    /\ ExportPath \notin (files.export_dirs \ saved)

ExportSucceeded ==
    /\ exit_code = <<0>>
    /\ saved = {ExportPath}
    /\ stdout = <<ExportingMessage, DoneMessage>>

FirstRejection ==
    IF Len(argv) < 2 \/ argv[Len(argv)].name # "" THEN UsageMessage
    ELSE IF FLAGS.import_path = "" THEN PathMessage
    ELSE IF FLAGS.model_version < 1 THEN VersionMessage
    ELSE ""

----------------------------------------------------------------------------
(* C13: right after set_env_var(name, value, overwrite_existing) the      *)
(* variable equals value if it was unset before the call, whatever the     *)
(* flag; if it was set it keeps its previous value when the flag is False  *)
(* and equals value when the flag is True.                                 *)
C13_SetEnvVar ==
    env_call # <<>> =>
        LET c == env_call[1] IN
        environ[c.env_var] =
            (IF c.before = "<unset>" THEN c.value
             ELSE IF c.overwrite_existing THEN c.value
             ELSE c.before)

(* The first call of test_env_var_already_set: the variable holds          *)
(* "original", the call asks for "modified" without overwriting.           *)
C13_Witness ==
    /\ env_call # <<>>
    /\ env_call[1].env_var = "model-zoo-test-env-var-name"
    /\ env_call[1].before = "original"
    /\ env_call[1].value = "modified"
    /\ ~env_call[1].overwrite_existing
    /\ environ["model-zoo-test-env-var-name"] = "original"

----------------------------------------------------------------------------
(* C14 as stated: the optimizer of a training graph is wrapped in the      *)
(* distributed optimizer exactly when more than one worker was found at    *)
(* import; a run of a single worker is not wrapped.                        *)
Wrapped ==
    Len(optimizer) > 0 /\ optimizer[Len(optimizer)] = "DistributedOptimizer"

C14_WrappedAboveOneWorker ==
    mode = "TRAIN" => (Wrapped <=> (hvd.installed /\ hvd.size > 1))

(* C14, amended: the optimizer of a training graph is wrapped in the       *)
(* distributed optimizer exactly when horovod was imported at process      *)
(* start, a job of one worker included; without horovod it is not          *)
(* wrapped, no other mode builds an optimizer, and is_mpi keeps the value  *)
(* the import gave it.                                                     *)
C14_WrappedWhenHorovodImported ==
    /\ is_mpi = (IF hvd.installed THEN hvd.size ELSE 0)
    /\ mode = "TRAIN" => (Wrapped <=> hvd.installed)
    /\ mode # "TRAIN" => ~Wrapped

(* A training graph built by a process launched alone with horovod         *)
(* installed: one worker, and the optimizer is wrapped.                    *)
C14_Witness ==
    /\ pc = "Estimator"
    /\ mode = "TRAIN"
    /\ hvd = [installed |-> TRUE, size |-> 1, rank |-> 0]
    /\ is_mpi = 1
    /\ optimizer = <<"MomentumOptimizer", "ZooOptimizer", "DistributedOptimizer">>

----------------------------------------------------------------------------
(* C15: whenever Policy B has been evaluated for a configuration whose     *)
(* warm-up takes the whole schedule (train_steps <= w_steps), the step     *)
(* count its polynomial decay divides by is at least 1.                    *)
C15_DecayDivisorAtLeastOne ==
    (/\ lr_pc = "poly_rate_fn"
     /\ lr_step >= 0
     /\ RLe(train_steps(lr_cfg), RInt(w_steps(lr_cfg))))
        => RLe(RInt(1), PolyDecaySpan(lr_cfg))

----------------------------------------------------------------------------
(* C16 as stated: the transformations are applied in the order raw         *)
(* prefetch, then in training mode only a shard by worker rank (only when  *)
(* more than one worker is present) and a shuffle, then the per-record     *)
(* map, then the final prefetch; no repeat comes before the shuffle; at    *)
(* every moment the transformations applied so far are the beginning of    *)
(* that order and at the return they are all of it.                        *)
StageNames == [k \in 1..Len(dataset) |-> dataset[k].op]

StageOrder(sharded) ==
    <<"prefetch">>
    \o (IF ds_args.is_training
        THEN (IF sharded THEN <<"shard">> ELSE <<>>) \o <<"shuffle">>
        ELSE <<>>)
    \o <<"map", "prefetch">>

FollowsOrder(order) ==
    /\ Len(StageNames) <= Len(order)
    /\ StageNames = SubSeq(order, 1, Len(StageNames))
    /\ ds_pc = "return" => StageNames = order

C16_ShardAboveOneWorker ==
    ds_pc # "idle" => FollowsOrder(StageOrder(hvd.installed /\ hvd.size > 1))

(* C16, amended: the same order, with the shard by worker rank applied in  *)
(* training mode whenever horovod was imported at process start, a job of  *)
(* one worker included (shard(1, 0)); the raw prefetch holds batch_size    *)
(* records and the shard is that of the worker's rank among size workers.  *)
C16_StageOrder ==
    ds_pc # "idle" =>
        /\ FollowsOrder(StageOrder(hvd.installed))
        /\ \A k \in 1..Len(dataset) :
              /\ dataset[k].op = "shard" =>
                    dataset[k].a = hvd.size /\ dataset[k].b = hvd.rank
              /\ dataset[k].op # "repeat"
        /\ Len(dataset) >= 1 => dataset[1].a = ds_args.batch_size

(* A training pipeline returned to a process launched alone with horovod   *)
(* installed: sharded one way, then shuffled, parsed and prefetched.       *)
C16_Witness ==
    /\ ds_pc = "return"
    /\ ds_args.is_training
    /\ hvd = [installed |-> TRUE, size |-> 1, rank |-> 0]
    /\ StageNames = <<"prefetch", "shard", "shuffle", "map", "prefetch">>

----------------------------------------------------------------------------
(* C17: for every node count, the examples one training chunk consumes     *)
(* (the steps asked of estimator.train times the batch size handed to      *)
(* the training dataset) are at most epochs_between_evals times the        *)
(* 1281167 training examples.                                              *)
C17_ChunkWithinItsEpochs ==
    \A k \in 1..Len(calls) :
        calls[k].op = "train" =>
            calls[k].steps * calls[k].batch_size
                <= flags.epochs_between_evals * 1281167

----------------------------------------------------------------------------
(* C18: when the driver is Done it has made train_epochs \div              *)
(* epochs_between_evals training calls of epochs_between_evals epochs      *)
(* each and as many evaluations: the epochs trained are that quotient      *)
(* times epochs_between_evals, short of train_epochs by the remainder,     *)
(* and with train_epochs < epochs_between_evals no call was made and the   *)
(* global step is still 0.                                                 *)
C18_EpochsTrainedAtDone ==
    pc = "Done" =>
        LET te == flags.train_epochs
            ebe == flags.epochs_between_evals
            trained == NumCalls("train") * ebe
        IN  /\ trained = (te \div ebe) * ebe
            /\ trained = te - (te % ebe)
            /\ global_step = trained * (1281167 \div flags.batch_size)
            /\ NumCalls("evaluate") * ebe = trained
            /\ te < ebe => calls = <<>> /\ global_step = 0

(* A run of 7 epochs with evaluations every 3: Done after two chunks, 6    *)
(* epochs of 3 steps trained, the seventh never.                           *)
C18_Witness ==
    /\ pc = "Done"
    /\ flags.train_epochs = 7
    /\ flags.epochs_between_evals = 3
    /\ flags.batch_size = 427055
    /\ NumCalls("train") = 2
    /\ global_step = 18

====
